---- MODULE Spec2Model ----
(***************************************************************************)
(* The authentication microservice of youapp-api: the AuthController       *)
(* message handlers (register, login, refresh, hash-password, validate),  *)
(* the AuthService behind them, the JWT codec they call, and the user      *)
(* directory (the user microservice) they reach over RabbitMQ.             *)
(*                                                                         *)
(* Every handler is an async function: it is modelled as a process whose   *)
(* pc moves one step per await.  Directory calls are atomic at the         *)
(* directory, and may fail (directory unreachable), which rejects the      *)
(* awaited promise.                                                        *)
(***************************************************************************)
EXTENDS Integers, Sequences, FiniteSets, TLC

VARIABLES
    users,      \* the directory's credential records, users[i].id = i
    now,        \* the clock, in seconds
    events,     \* how many times the environment has acted
    reqs,       \* how many requests have been received
    wallet,     \* the token pairs the callers hold
    registered, \* ids of the records whose register request returned true
    proc        \* the handler invocations, one record per worker

vars == <<users, now, events, reqs, wallet, registered, proc>>

----------------------------------------------------------------------------
(* Bounds of the model *)

Procs == {1, 2}
MaxReqs == 2
MaxEvents == 1
MaxLiveReqs == 1

(* Program constants *)

AccessTtl == 180
RefreshTtl == 604800
USER_EXISTS == 2002
USER_CREATE_FAILED == 2003

JWT_ACCESS_SECRET == "access-secret"
JWT_REFRESH_SECRET == "refresh-secret"

(* Inputs *)

Usernames == {"a", "b"}
Emails == {"a@x.com", "b@x.com"}
Passwords == {"p", "q"}
TickSteps == {AccessTtl - 1, AccessTtl, RefreshTtl - 1, RefreshTtl + 1}

----------------------------------------------------------------------------
(* Values *)

RTrue == [kind |-> "true"]
RFalse == [kind |-> "false"]
RNull == [kind |-> "null"]
RUndefined == [kind |-> "undefined"]
RNone == [kind |-> "none"]
ErrorData(code, msg) == [kind |-> "error", statusCode |-> code, error |-> msg]
Jwt(a, r) == [kind |-> "jwt", accessToken |-> a, refreshToken |-> r]
RDigest(d) == [kind |-> "digest", digest |-> d]

NoDigest == [plain |-> "", salt |-> 0]
NullUser == [id |-> 0, username |-> "", email |-> "", password |-> NoDigest,
             present |-> FALSE]
NoPayload == [kind |-> "none", sub |-> 0, iat |-> 0, exp |-> 0]
NoToken == [sub |-> 0, secret |-> "", iat |-> 0, exp |-> 0]

(* Strings that matter to the code are sequences of atoms: the word       *)
(* "Bearer", a space, or a whole compact JWT (which holds no space).      *)
Word(w) == [t |-> "word", w |-> w]
Space == [t |-> "sp"]
JwtAtom(tok) == [t |-> "jwt", tok |-> tok]
Str(s) == [defined |-> TRUE, s |-> s]
UndefinedStr == [defined |-> FALSE, s |-> <<>>]
JwtStr(tok) == Str(<<JwtAtom(tok)>>)
BearerStr(tok) == Str(<<Word("Bearer"), Space, JwtAtom(tok)>>)

----------------------------------------------------------------------------
(* Password Hasher (Scrypt) *)

HashOf(plain, salt) == [plain |-> plain, salt |-> salt]
VerifyPassword(plain, digest) == digest.plain = plain

----------------------------------------------------------------------------
(* Token codec (JwtService over jsonwebtoken) *)

SignAsync(payload, ttl, secret, t) ==
    [sub |-> payload.sub, secret |-> secret, iat |-> t, exp |-> t + ttl]

\* verifyAsync: the decoded payload, or the error it rejects with
VerifyAsync(s, secret, t) ==
    IF ~(Len(s) = 1 /\ s[1].t = "jwt")
    THEN [ok |-> FALSE, err |-> "MALFORMED", payload |-> NoPayload]
    ELSE LET tok == s[1].tok IN
         IF tok.secret # secret
         THEN [ok |-> FALSE, err |-> "BAD_SIGNATURE", payload |-> NoPayload]
         ELSE IF t >= tok.exp
         THEN [ok |-> FALSE, err |-> "EXPIRED", payload |-> NoPayload]
         ELSE [ok |-> TRUE, err |-> "",
               payload |-> [kind |-> "payload", sub |-> tok.sub,
                            iat |-> tok.iat, exp |-> tok.exp]]

\* String.prototype.split(' ')
RECURSIVE SplitSpace(_)
SplitSpace(s) ==
    IF s = <<>> THEN << <<>> >>
    ELSE IF Head(s) = Space THEN << <<>> >> \o SplitSpace(Tail(s))
    ELSE LET r == SplitSpace(Tail(s))
         IN  << <<Head(s)>> \o Head(r) >> \o Tail(r)

StartsWithBearer(s) == Len(s) >= 2 /\ s[1] = Word("Bearer") /\ s[2] = Space

StripBearer(s) == SplitSpace(s)[2]

----------------------------------------------------------------------------
(* The user directory (the user microservice behind USER_SERVICE) *)

Matching(email, username) ==
    {i \in 1..Len(users) :
        /\ users[i].present
        /\ (users[i].email = email \/ users[i].username = username)}

\* 'find-user-by-email-or-username': the first stored record that matches
FindUserByEmailOrUsername(email, username) ==
    LET m == Matching(email, username) IN
    IF m = {} THEN NullUser
    ELSE users[CHOOSE i \in m : \A j \in m : i <= j]

\* 'is-userid-exist'
IsUserIdExist(id) == id \in 1..Len(users) /\ users[id].present

\* Scrypt draws a random salt: the least one that no digest carries that
\* the directory stores or that a handler invocation has read or computed
FreshSalt ==
    LET used == {users[i].password.salt : i \in 1..Len(users)}
                  \cup {proc[p].newPassword.salt : p \in Procs}
                  \cup {proc[p].user.password.salt : p \in Procs}
                  \cup {proc[p].replaced.salt : p \in Procs}
    IN CHOOSE m \in 1..(Cardinality(used) + 1) :
          /\ m \notin used
          /\ \A n \in 1..(m - 1) : n \in used

\* 'create-user': the directory hashes the password and stores the record
CreatedUsers(dto) ==
    Append(users, [id |-> Len(users) + 1, username |-> dto.username,
                   email |-> dto.email,
                   password |-> HashOf(dto.password, FreshSalt),
                   present |-> TRUE])

\* 'update-password'
UpdatedUsers(userId, digest) == [users EXCEPT ![userId].password = digest]

----------------------------------------------------------------------------
(* Handler invocations *)

Idle ==
    [pc |-> "idle", op |-> "none", data |-> UndefinedStr,
     user |-> NullUser,          \* validateUser / register: the record found
     isPasswordMatched |-> "none",
     newPassword |-> NoDigest,
     updateReply |-> "none",     \* reply of 'update-password'
     replaced |-> NoDigest,      \* the digest that 'update-password' replaced
     userId |-> 0,               \* reply of 'create-user', 0 is null
     verified |-> "none",        \* outcome of verifyAsync, or NO_PREFIX
     verifiedAt |-> 0,
     payload |-> NoPayload,
     isUserExist |-> "none",     \* reply of 'is-userid-exist'
     failed |-> "none",          \* the unexpected failure met, if any
     failedAt |-> "none",        \* and the step it was met at
     outcome |-> "none",         \* the AuthService promise: returned / thrown
     result |-> RNone,           \* what the AuthService method resolved to
     ret |-> RNone,              \* what the controller handler returned
     http |-> [status |-> 0],    \* what the HTTP gateway answered, if it did
     acks |-> 0, nacks |-> 0,
     finds |-> 0, creates |-> 0, updates |-> 0, exists |-> 0,
     seen |-> {},                \* 'registered' when the request arrived
     held |-> {}]                \* the issuances the caller has the replies of

Entry(op) ==
    CASE op = "register" -> "register_find"
      [] op = "login" -> "login_find"
      [] op = "refresh" -> "refresh_verify"
      [] op = "validate" -> "validate_verify"
      [] op = "hash-password" -> "hash"

Busy(p) == proc[p].pc \notin {"idle", "done"}

Forged == [sub |-> 1, secret |-> "forged-secret", iat |-> 0, exp |-> RefreshTtl]
Presentable ==
    {jwt.accessToken : jwt \in wallet} \cup {jwt.refreshToken : jwt \in wallet}
        \cup {Forged}

RegisterInputs == [username : Usernames, email : Emails, password : {"p"}]
LoginInputs == [usernameOrEmail : {"a", "b@x.com"}, password : Passwords]
RefreshInputs ==
    {UndefinedStr, Str(<<Word("Bearer"), Space>>)}
        \cup {BearerStr(t) : t \in Presentable}
        \cup {JwtStr(t) : t \in Presentable}
ValidateInputs == {Str(<<>>)} \cup {JwtStr(t) : t \in Presentable}

\* What the caller keeps of a login or refresh that returned a pair: the
\* request, the account it was for, and the pair.
Issuance(r) == [by |-> r.op, data |-> r.data, user |-> r.user.id, jwt |-> r.ret]
\* A refresh or validate request comes from a caller that has the replies
\* of the requests that are over.
Held(op) ==
    IF op \in {"refresh", "validate"}
    THEN {Issuance(proc[q]) :
            q \in {q \in Procs : proc[q].pc = "done" /\ proc[q].ret.kind = "jwt"}}
    ELSE {}

\* sharedService.extractData(context): the payload and its ack/nack handle.
\* The workers are identical, so a request goes to the lowest free one; the
\* records of the invocations that are over are dropped when it arrives.
Receive(p, op, data) ==
    /\ ~Busy(p)
    /\ \A q \in Procs : q < p => Busy(q)
    /\ reqs < MaxReqs
    /\ reqs' = reqs + 1
    /\ proc' = [q \in Procs |->
                  IF q = p
                  THEN [Idle EXCEPT !.pc = Entry(op), !.op = op, !.data = data,
                                    !.seen = registered, !.held = Held(op)]
                  ELSE IF Busy(q) THEN proc[q] ELSE Idle]
    /\ UNCHANGED <<users, now, events, wallet, registered>>

\* refresh, validate and hash-password write nothing that is shared and read
\* nothing that register or login write: run beside another request they add
\* no behaviour.  Requests overlap when both are a register or a login.
First == CHOOSE p \in Procs : \A q \in Procs : p <= q
Writes(p) == proc[p].op \in {"register", "login"}

ReceiveRegister(p) ==
    /\ \A q \in Procs : q < p => Writes(q)
    /\ \E d \in RegisterInputs : Receive(p, "register", d)
ReceiveLogin(p) ==
    /\ \A q \in Procs : q < p => Writes(q)
    /\ \E d \in LoginInputs : Receive(p, "login", d)
ReceiveRefresh(p) ==
    p = First /\ \E d \in RefreshInputs : Receive(p, "refresh", d)
ReceiveValidate(p) ==
    p = First /\ \E d \in ValidateInputs : Receive(p, "validate", d)
ReceiveHashPassword(p) ==
    p = First /\ \E d \in Passwords : Receive(p, "hash-password", d)

----------------------------------------------------------------------------
(* AuthController: the try/catch around every AuthService call.  Once the  *)
(* awaited AuthService promise settles the handler runs to its return.     *)

SafeDefault(op) == IF op = "register" THEN RFalse ELSE RNull

ControllerSettle_noCatch(r) ==
    IF r.outcome = "returned"
    THEN [r EXCEPT !.acks = @ + 1, !.ret = r.result, !.pc = "done"]
    ELSE [r EXCEPT !.pc = "pending"]
ControllerSettle_ackAlways(r) ==
    IF r.outcome = "returned"
    THEN [r EXCEPT !.acks = @ + 1, !.ret = r.result, !.pc = "done"]
    ELSE [r EXCEPT !.acks = @ + 1, !.nacks = @ + 1, !.ret = SafeDefault(r.op),
                   !.pc = "done"]
ControllerSettle(r) ==
    IF r.outcome = "returned"
    THEN [r EXCEPT !.acks = @ + 1, !.ret = r.result, !.pc = "done"]
    ELSE [r EXCEPT !.nacks = @ + 1, !.ret = SafeDefault(r.op), !.pc = "done"]

RefreshSecret_access == JWT_ACCESS_SECRET
RefreshSecret == JWT_REFRESH_SECRET

IssuePair_absoluteExpiry(payload, t) ==
    Jwt(SignAsync(payload, AccessTtl, JWT_ACCESS_SECRET, t),
        [SignAsync(payload, RefreshTtl, JWT_REFRESH_SECRET, t)
            EXCEPT !.exp = RefreshTtl])
IssuePair_oneLifetime(payload, t) ==
    Jwt(SignAsync(payload, AccessTtl, JWT_ACCESS_SECRET, t),
        SignAsync(payload, AccessTtl, JWT_REFRESH_SECRET, t))
IssuePair_oneSecret(payload, t) ==
    Jwt(SignAsync(payload, AccessTtl, JWT_ACCESS_SECRET, t),
        SignAsync(payload, RefreshTtl, JWT_ACCESS_SECRET, t))
IssuePair(payload, t) ==
    Jwt(SignAsync(payload, AccessTtl, JWT_ACCESS_SECRET, t),
        SignAsync(payload, RefreshTtl, JWT_REFRESH_SECRET, t))

InitialWallet == {IssuePair([sub |-> 1], 0)}

\* An awaited call rejects and the exception leaves the AuthService method
Throw(r, cause) ==
    ControllerSettle([r EXCEPT !.outcome = "thrown", !.failed = cause,
                               !.failedAt = r.pc])
\* The AuthService method resolves
Return(r, v) ==
    ControllerSettle([r EXCEPT !.outcome = "returned", !.result = v])

----------------------------------------------------------------------------
(* AppController, the HTTP gateway: it sends the request to the auth       *)
(* service, awaits the handler's return value and answers from it.         *)

NoResponse == [status |-> 0]
\* res.status(s).send()
Send(status) == [status |-> status, body |-> FALSE]
\* res.status(s).json({isOk, message, errorCode, data}); 0 and "" stand for
\* a property that is undefined
Json(status, isOk, message, errorCode, data) ==
    [status |-> status, body |-> TRUE, isOk |-> isOk, message |-> message,
     errorCode |-> errorCode, data |-> data]

\* JavaScript truthiness of a value the auth service returns
Truthy(v) == v.kind \notin {"undefined", "null", "false"}

BuildErrorReponse(errorCode, message) ==
    Json(500, FALSE, message, errorCode, RUndefined)

GatewayRegister(result) ==
    IF result.kind = "error" /\ result.statusCode # 0
    THEN BuildErrorReponse(result.statusCode, result.error)
    ELSE Send(201)

\* the body of login and of refreshToken, which differ in the failure status,
\* the message and the error code
GatewayJwt(jwt, status, message, errorCode) ==
    LET isJwtValid == jwt # RNull IN
    Json(IF ~Truthy(jwt) THEN status ELSE 200,
         isJwtValid,
         IF ~isJwtValid THEN message ELSE "",
         IF ~isJwtValid THEN errorCode ELSE 0,
         IF ~isJwtValid THEN RUndefined ELSE jwt)

GatewayLogin(jwt) ==
    GatewayJwt(jwt, 400, "Invalid username, email or password", 2004)
GatewayRefreshToken(jwt) == GatewayJwt(jwt, 401, "Invalid refresh token", 2005)

\* the answer to the HTTP request that handler invocation r served
Respond(r) ==
    IF r.pc # "done" THEN r
    ELSE [r EXCEPT !.http =
            CASE r.op = "register" -> GatewayRegister(r.ret)
              [] r.op = "login" -> GatewayLogin(r.ret)
              [] r.op = "refresh" -> GatewayRefreshToken(r.ret)
              [] OTHER -> NoResponse]

\* worker p moves to r; a reply that reaches the caller is remembered: the
\* callers hold the pair of the session open at the start and the last pair
\* returned
Step(p, r) ==
    /\ proc' = [proc EXCEPT ![p] = Respond(r)]
    /\ wallet' = IF r.pc = "done" /\ r.ret.kind = "jwt"
                 THEN InitialWallet \cup {r.ret}
                 ELSE wallet
    /\ registered' = IF r.pc = "done" /\ r.op = "register" /\ r.ret = RTrue
                     THEN registered \cup {r.userId}
                     ELSE registered

----------------------------------------------------------------------------
(* AuthService.register *)

RegisterLookup_emailOnly(dto) == [email |-> dto.email, username |-> ""]
RegisterLookup(dto) == [email |-> dto.email, username |-> dto.username]

RegisterUserExists(user) == user # NullUser

RegisterCreated_always(userId) == TRUE
RegisterCreated(userId) == ~(userId = 0)

RegisterFind(p) ==
    LET r == proc[p] IN
    /\ r.pc = "register_find"
    /\ \E up \in BOOLEAN :
         LET r1 == [r EXCEPT !.finds = @ + 1]
             key == RegisterLookup(r.data)
             user == FindUserByEmailOrUsername(key.email, key.username)
             r2 == [r1 EXCEPT !.user = user]
         IN Step(p, IF ~up THEN Throw(r1, "directory")
                    ELSE IF RegisterUserExists(user)
                    THEN Return(r2, ErrorData(USER_EXISTS, "User already exists"))
                    ELSE [r2 EXCEPT !.pc = "register_create"])
    /\ UNCHANGED <<users, now, events, reqs>>

RegisterCreate(p) ==
    LET r == proc[p]
        r1 == [r EXCEPT !.creates = @ + 1]
        finish(userId) ==
            IF RegisterCreated(userId)
            THEN Return([r1 EXCEPT !.userId = userId], RTrue)
            ELSE Return([r1 EXCEPT !.userId = userId],
                        ErrorData(USER_CREATE_FAILED, "User creation failed"))
    IN
    /\ r.pc = "register_create"
    /\ \/ \* the directory is unreachable
          /\ Step(p, Throw(r1, "directory"))
          /\ UNCHANGED users
       \/ \* the directory stores the record and replies its id
          /\ users' = CreatedUsers(r.data)
          /\ Step(p, finish(Len(users) + 1))
       \/ \* the directory stores nothing and replies null
          /\ Step(p, finish(0))
          /\ UNCHANGED users
    /\ UNCHANGED <<now, events, reqs>>

----------------------------------------------------------------------------
(* AuthService.login, AuthService.validateUser, AuthService.generateJWT *)

PasswordGate_open(matched) == TRUE
PasswordGate(matched) == matched

ValidateUserResult_ignoreReply(result, user) == user
ValidateUserResult(result, user) == IF result THEN user ELSE NullUser

LoginUserMissing(user) == user = NullUser

\* const payload = { sub: user._id.toString() }
LoginPayload_noSubject(user) ==
    [kind |-> "payload", sub |-> 0, iat |-> 0, exp |-> 0]
LoginPayload(user) == [kind |-> "payload", sub |-> user.id, iat |-> 0, exp |-> 0]

LoginFind(p) ==
    LET r == proc[p] IN
    /\ r.pc = "login_find"
    /\ \E up \in BOOLEAN :
         LET r1 == [r EXCEPT !.finds = @ + 1]
             user == FindUserByEmailOrUsername(r.data.usernameOrEmail,
                                               r.data.usernameOrEmail)
         IN Step(p, IF ~up THEN Throw(r1, "directory")
                    ELSE IF LoginUserMissing(user) THEN Return(r1, RUndefined)
                    ELSE [r1 EXCEPT !.user = user, !.pc = "login_verify"])
    /\ UNCHANGED <<users, now, events, reqs>>

\* const newPassword = await this.hashPassword(password)
NewPassword_ofStored(password, user) == HashOf("stored-digest", FreshSalt)
NewPassword_sameSalt(password, user) == HashOf(password, user.password.salt)
NewPassword(password, user) == HashOf(password, FreshSalt)

\* Scrypt.verifyPassword, then on a match this.hashPassword(password)
LoginVerify(p) ==
    LET r == proc[p]
        matched == VerifyPassword(r.data.password, r.user.password)
        r1 == [r EXCEPT !.isPasswordMatched = IF matched THEN "yes" ELSE "no"]
    IN
    /\ r.pc = "login_verify"
    /\ Step(p, IF PasswordGate(matched)
               THEN [r1 EXCEPT !.newPassword = NewPassword(r.data.password, r.user),
                               !.pc = "login_update"]
               ELSE Return(r1, RUndefined))
    /\ UNCHANGED <<users, now, events, reqs>>

LoginUpdate(p) ==
    LET r == proc[p]
        r1 == [r EXCEPT !.updates = @ + 1]
        finish(result) ==
            LET user == ValidateUserResult(result, r.user)
                r2 == [r1 EXCEPT !.updateReply =
                                    IF result THEN "true" ELSE "false",
                                 !.replaced =
                                    IF result THEN users[r.user.id].password
                                    ELSE NoDigest]
            IN IF LoginUserMissing(user) THEN Return(r2, RUndefined)
               ELSE [r2 EXCEPT !.payload = LoginPayload(user), !.pc = "sign"]
    IN
    /\ r.pc = "login_update"
    /\ \/ \* the directory is unreachable
          /\ Step(p, Throw(r1, "directory"))
          /\ UNCHANGED users
       \/ \* the directory stores the new digest and replies true
          /\ IsUserIdExist(r.user.id)
          /\ users' = UpdatedUsers(r.user.id, r.newPassword)
          /\ Step(p, finish(TRUE))
       \/ \* the directory changes nothing and replies false
          /\ Step(p, finish(FALSE))
          /\ UNCHANGED users
    /\ UNCHANGED <<now, events, reqs>>

\* generateJWT, reached from login and from refresh
GenerateJWT(p) ==
    LET r == proc[p] IN
    /\ r.pc = "sign"
    /\ \E ok \in BOOLEAN :
         Step(p, IF ok THEN Return(r, IssuePair(r.payload, now))
                 ELSE Throw(r, "signing"))
    /\ UNCHANGED <<users, now, events, reqs>>

----------------------------------------------------------------------------
(* AuthService.refresh *)

\* the prefix check, the strip and verifyAsync, with what the catch sees
RefreshCheck_subjectChecked(data, t) ==
    IF ~data.defined
    THEN [ok |-> FALSE, err |-> "TYPE_ERROR", payload |-> NoPayload]
    ELSE IF ~StartsWithBearer(data.s)
    THEN [ok |-> FALSE, err |-> "NO_PREFIX", payload |-> NoPayload]
    ELSE LET v == VerifyAsync(StripBearer(data.s), RefreshSecret, t) IN
         IF v.ok /\ ~IsUserIdExist(v.payload.sub)
         THEN [ok |-> FALSE, err |-> "NO_SUBJECT", payload |-> NoPayload]
         ELSE v
RefreshCheck_rotated(data, t) ==
    IF ~data.defined
    THEN [ok |-> FALSE, err |-> "TYPE_ERROR", payload |-> NoPayload]
    ELSE IF ~StartsWithBearer(data.s)
    THEN [ok |-> FALSE, err |-> "NO_PREFIX", payload |-> NoPayload]
    ELSE IF \E jwt \in wallet : \E i \in 1..Len(data.s) :
               /\ data.s[i].t = "jwt"
               /\ jwt.refreshToken.iat > data.s[i].tok.iat
    THEN [ok |-> FALSE, err |-> "REVOKED", payload |-> NoPayload]
    ELSE VerifyAsync(StripBearer(data.s), RefreshSecret, t)
RefreshCheck(data, t) ==
    IF ~data.defined
    THEN [ok |-> FALSE, err |-> "TYPE_ERROR", payload |-> NoPayload]
    ELSE IF ~StartsWithBearer(data.s)
    THEN [ok |-> FALSE, err |-> "NO_PREFIX", payload |-> NoPayload]
    ELSE VerifyAsync(StripBearer(data.s), RefreshSecret, t)

\* catch (error) { console.log(error); return undefined; }
RefreshCatch_rethrow(r) == Throw(r, "caught")
RefreshCatch(r) == Return(r, RUndefined)

\* this.generateJWT({ sub: payload.sub })
RefreshPayload_noSubject(payload) ==
    [kind |-> "payload", sub |-> 0, iat |-> 0, exp |-> 0]
RefreshPayload(payload) ==
    [kind |-> "payload", sub |-> payload.sub, iat |-> 0, exp |-> 0]

RefreshVerify(p) ==
    LET r == proc[p]
        v == RefreshCheck(r.data, now)
        r1 == [r EXCEPT !.verified = IF v.ok THEN "ok" ELSE v.err,
                        !.verifiedAt = now]
    IN
    /\ r.pc = "refresh_verify"
    /\ Step(p, IF v.ok
               THEN [r1 EXCEPT !.payload = RefreshPayload(v.payload),
                               !.pc = "sign"]
               ELSE RefreshCatch(r1))
    /\ UNCHANGED <<users, now, events, reqs>>

----------------------------------------------------------------------------
(* AuthService.validateJwt *)

ValidateCheck(data, t) ==
    IF ~data.defined
    THEN [ok |-> FALSE, err |-> "MALFORMED", payload |-> NoPayload]
    ELSE VerifyAsync(data.s, JWT_ACCESS_SECRET, t)

SubjectGate_open(isUserExist) == TRUE
SubjectGate(isUserExist) == isUserExist

\* catch (error) { return undefined; }
ValidateCatch(r) == Return(r, RUndefined)

ValidateVerify(p) ==
    LET r == proc[p]
        v == ValidateCheck(r.data, now)
        r1 == [r EXCEPT !.verified = IF v.ok THEN "ok" ELSE v.err,
                        !.verifiedAt = now]
    IN
    /\ r.pc = "validate_verify"
    /\ Step(p, IF v.ok
               THEN [r1 EXCEPT !.payload = v.payload, !.pc = "validate_exist"]
               ELSE ValidateCatch(r1))
    /\ UNCHANGED <<users, now, events, reqs>>

ValidateExist(p) ==
    LET r == proc[p]
        r1 == [r EXCEPT !.exists = @ + 1]
        isUserExist == IsUserIdExist(r.payload.sub)
        r2 == [r1 EXCEPT !.isUserExist = IF isUserExist THEN "true" ELSE "false"]
    IN
    /\ r.pc = "validate_exist"
    /\ \E up \in BOOLEAN :
         Step(p, IF ~up  \* the rejection is caught inside validateJwt
                 THEN ValidateCatch([r1 EXCEPT !.failed = "directory",
                                               !.failedAt = r.pc])
                 ELSE IF SubjectGate(isUserExist) THEN Return(r2, r.payload)
                 ELSE Return(r2, RUndefined))
    /\ UNCHANGED <<users, now, events, reqs>>

----------------------------------------------------------------------------
(* AuthService.hashPassword *)

HashPassword(p) ==
    LET r == proc[p] IN
    /\ r.pc = "hash"
    /\ Step(p, Return(r, RDigest(HashOf(r.data, FreshSalt))))
    /\ UNCHANGED <<users, now, events, reqs>>

----------------------------------------------------------------------------
(* The environment: the clock, and the directory removing an account *)

\* Only signAsync and verifyAsync read the clock: it advances right before
\* one of them runs.
ReadsClock(p) == proc[p].pc \in {"sign", "refresh_verify", "validate_verify"}

Tick ==
    /\ events < MaxEvents
    /\ \E p \in Procs : ReadsClock(p)
    /\ \E d \in TickSteps : now' = now + d
    /\ events' = events + 1
    /\ UNCHANGED <<users, reqs, wallet, registered, proc>>

\* The directory is read by the lookups and by 'update-password': an
\* account is removed right before one of them runs.
ReadsDirectory(p) ==
    proc[p].pc \in {"register_find", "login_find", "login_update",
                    "validate_exist"}

DeleteUser ==
    /\ events < MaxEvents
    /\ \E p \in Procs : ReadsDirectory(p)
    /\ \E i \in 1..Len(users) :
         /\ users[i].present
         /\ users' = [users EXCEPT ![i].present = FALSE]
    /\ events' = events + 1
    /\ UNCHANGED <<now, reqs, wallet, registered, proc>>

----------------------------------------------------------------------------

UserA == [id |-> 1, username |-> "a", email |-> "a@x.com",
          password |-> HashOf("p", 1), present |-> TRUE]

\* The service starts on a directory that holds one account, whose owner
\* logged in at time 0 and holds the pair issued then.
Init ==
    /\ users = <<UserA>>
    /\ wallet = InitialWallet
    /\ now = 0
    /\ events = 0
    /\ reqs = 0
    /\ registered = {}
    /\ proc = [p \in Procs |-> Idle]

Next ==
    \/ \E p \in Procs : ReceiveRegister(p)
    \/ \E p \in Procs : ReceiveLogin(p)
    \/ \E p \in Procs : ReceiveRefresh(p)
    \/ \E p \in Procs : ReceiveValidate(p)
    \/ \E p \in Procs : ReceiveHashPassword(p)
    \/ \E p \in Procs : RegisterFind(p)
    \/ \E p \in Procs : RegisterCreate(p)
    \/ \E p \in Procs : LoginFind(p)
    \/ \E p \in Procs : LoginVerify(p)
    \/ \E p \in Procs : LoginUpdate(p)
    \/ \E p \in Procs : GenerateJWT(p)
    \/ \E p \in Procs : RefreshVerify(p)
    \/ \E p \in Procs : ValidateVerify(p)
    \/ \E p \in Procs : ValidateExist(p)
    \/ \E p \in Procs : HashPassword(p)
    \/ Tick
    \/ DeleteUser

Spec == Init /\ [][Next]_vars

\* The continuation of an await runs once the awaited promise has settled:
\* a handler invocation that can take its next step eventually takes it.
Handle(p) ==
    \/ RegisterFind(p) \/ RegisterCreate(p)
    \/ LoginFind(p) \/ LoginVerify(p) \/ LoginUpdate(p)
    \/ GenerateJWT(p)
    \/ RefreshVerify(p)
    \/ ValidateVerify(p) \/ ValidateExist(p)
    \/ HashPassword(p)

\* The behaviours checked for termination: the requests received are
\* counted against MaxLiveReqs.
LiveReceive(p) ==
    /\ reqs < MaxLiveReqs
    /\ \/ ReceiveRegister(p) \/ ReceiveLogin(p) \/ ReceiveRefresh(p)
       \/ ReceiveValidate(p) \/ ReceiveHashPassword(p)

LiveNext ==
    \/ \E p \in Procs : LiveReceive(p)
    \/ \E p \in Procs : Handle(p)
    \/ Tick
    \/ DeleteUser

FairSpec ==
    Init /\ [][LiveNext]_vars /\ \A p \in Procs : WF_vars(Handle(p))

----------------------------------------------------------------------------
(* Properties *)

Done(p, op) == proc[p].pc = "done" /\ proc[p].op = op
Acked(r) == r.acks = 1 /\ r.nacks = 0
Nacked(r) == r.acks = 0 /\ r.nacks = 1

\* the directory replied to the lookup of request r, with a record or null
LookupReplied(r) == r.finds = 1 /\ r.failedAt \notin {"register_find", "login_find"}
\* the directory replied to the 'create-user' of request r
CreateReplied(r) == r.creates = 1 /\ r.failedAt # "register_create"

\* the string is "Bearer " followed by exactly one compact token
IsBearerToken(data) ==
    /\ data.defined
    /\ Len(data.s) = 3
    /\ data.s[1] = Word("Bearer") /\ data.s[2] = Space /\ data.s[3].t = "jwt"
\* the string is exactly one compact token
IsBareToken(data) == data.defined /\ Len(data.s) = 1 /\ data.s[1].t = "jwt"
\* token tok is signed under secret and not expired at time t
GoodAt(tok, secret, t) == tok.secret = secret /\ t < tok.exp

\* C1: a login returns no token pair when the lookup replies no record, when
\* the password does not verify against the stored digest, and when it
\* verifies but 'update-password' replies false; a pair is returned only
\* when the lookup, the verification and the write-back all succeeded.
C1_LoginGate ==
    \A p \in Procs : Done(p, "login") =>
        LET r == proc[p] IN
        /\ (LookupReplied(r) /\ r.user = NullUser) => r.ret.kind # "jwt"
        /\ (r.user # NullUser /\ r.user.password.plain # r.data.password)
              => r.ret.kind # "jwt"
        /\ (r.user # NullUser /\ r.user.password.plain = r.data.password
              /\ r.updateReply = "false") => r.ret.kind # "jwt"
        /\ r.ret.kind = "jwt" =>
              /\ r.user # NullUser
              /\ r.user.password.plain = r.data.password
              /\ r.updateReply = "true"

\* a login whose password verified and whose write-back was refused is over
C1_Witness ==
    \E p \in Procs :
        /\ Done(p, "login")
        /\ proc[p].isPasswordMatched = "yes"
        /\ proc[p].updateReply = "false"
        /\ proc[p].ret = RUndefined

\* C2: register returns {2002, 'User already exists'} and sends no
\* 'create-user' whenever the lookup replies a record; when the lookup
\* replies null it sends exactly one 'create-user', returns true iff that
\* request replies a non-null id, and {2003, 'User creation failed'} when it
\* replies no id.
C2_Register ==
    \A p \in Procs : Done(p, "register") =>
        LET r == proc[p] IN
        /\ (LookupReplied(r) /\ r.user # NullUser) =>
              /\ r.ret = ErrorData(2002, "User already exists")
              /\ r.creates = 0
        /\ (LookupReplied(r) /\ r.user = NullUser) =>
              /\ r.creates = 1
              /\ r.ret = RTrue <=> (CreateReplied(r) /\ r.userId # 0)
              /\ (CreateReplied(r) /\ r.userId = 0) =>
                    r.ret = ErrorData(2003, "User creation failed")
        /\ ~LookupReplied(r) => r.creates = 0 /\ r.ret # RTrue

\* a register whose 'create-user' replied null is over
C2_Witness ==
    \E p \in Procs :
        /\ Done(p, "register")
        /\ CreateReplied(proc[p])
        /\ proc[p].userId = 0
        /\ proc[p].ret.kind = "error"

\* C3: once a register for (u, e) has returned true, a register that arrives
\* later with username u or email e, while the directory still stores that
\* record, sends no 'create-user' and, the directory being reachable,
\* returns statusCode 2002.
C3_RegisterAgain ==
    \A p \in Procs : Done(p, "register") =>
        LET r == proc[p] IN
        \A id \in r.seen :
            (/\ users[id].present
             /\ (users[id].username = r.data.username
                    \/ users[id].email = r.data.email))
            => /\ r.creates = 0
               /\ r.failed = "none" => /\ r.ret.kind = "error"
                                       /\ r.ret.statusCode = 2002

\* a register that met the record of an earlier, successful one is over
C3_Witness ==
    \E p \in Procs :
        /\ Done(p, "register")
        /\ proc[p].ret.kind = "error"
        /\ \E id \in proc[p].seen :
              /\ users[id].present
              /\ users[id].username = proc[p].data.username
              /\ users[id].email # proc[p].data.email

\* C4: in every reachable state, under any interleaving of concurrent
\* register requests, no two stored records share a username and no two
\* share an email.
C4_UniqueRecords ==
    \A i, j \in 1..Len(users) :
        (i # j /\ users[i].present /\ users[j].present) =>
            /\ users[i].username # users[j].username
            /\ users[i].email # users[j].email

\* C5: when a handler has returned, exactly one of ack / nack has been
\* invoked on its request, once; before that, neither has.
C5_AckExactlyOnce ==
    \A p \in Procs :
        LET r == proc[p] IN
        /\ r.pc = "done" => (Acked(r) \/ Nacked(r))
        /\ r.pc # "done" => (r.acks = 0 /\ r.nacks = 0)

\* a handler whose AuthService call threw has returned
C5_Witness ==
    \E p \in Procs :
        /\ proc[p].pc = "done"
        /\ proc[p].outcome = "thrown"
        /\ Nacked(proc[p])

\* C6: every expected business outcome is returned as a value and the
\* request is acked: register USER_EXISTS and USER_CREATE_FAILED; login with
\* an unknown user, a wrong password or a refused rotation; refresh with no
\* prefix, a bad signature or an expired token; validate with an invalid
\* token or a subject that does not exist.
C6_BusinessOutcomesAcked ==
    \A p \in Procs : proc[p].pc = "done" =>
        LET r == proc[p]
            value(v) == r.outcome = "returned" /\ r.ret = v /\ Acked(r)
        IN
        /\ (r.op = "register" /\ LookupReplied(r) /\ r.user # NullUser)
              => value(ErrorData(2002, "User already exists"))
        /\ (r.op = "register" /\ CreateReplied(r) /\ r.userId = 0)
              => value(ErrorData(2003, "User creation failed"))
        /\ (r.op = "login" /\ LookupReplied(r) /\ r.user = NullUser)
              => value(RUndefined)
        /\ (r.op = "login" /\ r.user # NullUser
              /\ r.user.password.plain # r.data.password) => value(RUndefined)
        /\ (r.op = "login" /\ r.updateReply = "false") => value(RUndefined)
        /\ (r.op = "refresh" /\ IsBareToken(r.data)) => value(RUndefined)
        /\ (r.op = "refresh" /\ IsBearerToken(r.data)
              /\ ~GoodAt(r.data.s[3].tok, JWT_REFRESH_SECRET, r.verifiedAt))
              => value(RUndefined)
        /\ (r.op = "validate" /\ IsBareToken(r.data)
              /\ ~GoodAt(r.data.s[1].tok, JWT_ACCESS_SECRET, r.verifiedAt))
              => value(RUndefined)
        /\ (r.op = "validate" /\ r.isUserExist = "false") => value(RUndefined)

\* a refresh that presented an expired refresh token is over
C6_Witness ==
    \E p \in Procs :
        /\ Done(p, "refresh")
        /\ IsBearerToken(proc[p].data)
        /\ proc[p].data.s[3].tok.secret = JWT_REFRESH_SECRET
        /\ proc[p].verifiedAt >= proc[p].data.s[3].tok.exp
        /\ Acked(proc[p])

\* C7: for register, login, refresh and validate, whenever a directory call
\* fails unexpectedly or token signing fails, the request is nacked and the
\* caller receives the safe default (false for register, null otherwise).
C7_UnexpectedFailuresNacked ==
    \A p \in Procs :
        (/\ proc[p].pc = "done"
         /\ proc[p].op \in {"register", "login", "refresh", "validate"}
         /\ proc[p].failed \in {"directory", "signing"})
        => /\ Nacked(proc[p])
           /\ proc[p].ret = SafeDefault(proc[p].op)

\* C8: refresh returns a new pair for "Bearer " followed by a refresh token
\* signed under the refresh secret and unexpired (signing succeeding); it
\* returns no token when the prefix is missing, when the signature is
\* invalid and when the token is expired.
C8_Refresh ==
    \A p \in Procs : Done(p, "refresh") =>
        LET r == proc[p]
            valid == /\ IsBearerToken(r.data)
                     /\ GoodAt(r.data.s[3].tok, JWT_REFRESH_SECRET, r.verifiedAt)
        IN
        /\ (valid /\ r.failed # "signing") =>
              /\ r.ret.kind = "jwt"
              /\ r.ret.accessToken.sub = r.data.s[3].tok.sub
              /\ r.ret.accessToken.iat >= r.verifiedAt
              /\ r.ret.refreshToken.iat >= r.verifiedAt
        /\ ~valid => r.ret = RUndefined
        /\ (IsBareToken(r.data)
              /\ GoodAt(r.data.s[1].tok, JWT_REFRESH_SECRET, r.verifiedAt))
              => r.ret = RUndefined

\* a refresh that presented a valid token without the prefix is over
C8_Witness ==
    \E p \in Procs :
        /\ Done(p, "refresh")
        /\ IsBareToken(proc[p].data)
        /\ GoodAt(proc[p].data.s[1].tok, JWT_REFRESH_SECRET, proc[p].verifiedAt)
        /\ proc[p].ret = RUndefined

\* C9: validateJwt returns the session claim iff the token verifies under
\* the access secret (signature and expiry) and 'is-userid-exist' replies
\* true for its subject; it returns undefined otherwise; the directory is
\* consulted only after the verification has succeeded.
C9_ValidateJwt ==
    \A p \in Procs : proc[p].op = "validate" =>
        LET r == proc[p]
            verifies == /\ IsBareToken(r.data)
                        /\ GoodAt(r.data.s[1].tok, JWT_ACCESS_SECRET, r.verifiedAt)
        IN
        /\ r.exists > 0 => (r.verified = "ok" /\ verifies)
        /\ r.pc = "done" =>
              /\ r.ret.kind = "payload" <=> (verifies /\ r.isUserExist = "true")
              /\ r.ret.kind = "payload" => r.ret.sub = r.data.s[1].tok.sub
              /\ r.ret.kind # "payload" => r.ret = RUndefined

\* a validate whose token verified and whose subject is gone is over
C9_Witness ==
    \E p \in Procs :
        /\ Done(p, "validate")
        /\ proc[p].verified = "ok"
        /\ proc[p].isUserExist = "false"
        /\ proc[p].ret = RUndefined

\* C10: for every pair the callers hold (issued by login or by refresh),
\* refresh given "Bearer " + its access token returns no token, and
\* validateJwt given its refresh token returns no claim.
C10_SecretIsolation ==
    \A p \in Procs : \A jwt \in wallet :
        /\ (Done(p, "refresh") /\ proc[p].data = BearerStr(jwt.accessToken))
              => proc[p].ret.kind # "jwt"
        /\ (Done(p, "validate") /\ proc[p].data = JwtStr(jwt.refreshToken))
              => proc[p].ret.kind # "payload"

\* a validate that presented the refresh token of a held pair is over
C10_Witness ==
    \E p \in Procs : \E jwt \in wallet :
        /\ Done(p, "validate")
        /\ proc[p].data = JwtStr(jwt.refreshToken)
        /\ proc[p].verifiedAt < jwt.refreshToken.exp
        /\ proc[p].ret = RUndefined

\* the caller of request r has the pair that an earlier login returned
LoginsHeld(r) == {h \in r.held : h.by = "login"}

\* C11: a login that succeeds for user U returns a pair whose tokens carry
\* U's id; validateJwt given that access token before its expiry, the
\* directory replying that U exists, returns a claim whose subject is U's
\* id; refresh given "Bearer " + that refresh token before its expiry
\* (signing succeeding) returns a pair whose tokens carry U's id.
C11_RoundTrip ==
    \A p \in Procs :
        LET r == proc[p] IN
        /\ (Done(p, "login") /\ r.ret.kind = "jwt") =>
              /\ r.ret.accessToken.sub = r.user.id
              /\ r.ret.refreshToken.sub = r.user.id
        /\ \A h \in LoginsHeld(r) :
              /\ (/\ Done(p, "validate")
                  /\ r.data = JwtStr(h.jwt.accessToken)
                  /\ r.verifiedAt < h.jwt.accessToken.exp
                  /\ r.isUserExist = "true")
                 => (r.ret.kind = "payload" /\ r.ret.sub = h.user)
              /\ (/\ Done(p, "refresh")
                  /\ r.data = BearerStr(h.jwt.refreshToken)
                  /\ r.verifiedAt < h.jwt.refreshToken.exp
                  /\ r.failed # "signing")
                 => /\ r.ret.kind = "jwt"
                    /\ r.ret.accessToken.sub = h.user
                    /\ r.ret.refreshToken.sub = h.user

\* a validate given the access token of an earlier login, later but before
\* its expiry, has returned the claim
C11_Witness ==
    \E p \in Procs : \E h \in LoginsHeld(proc[p]) :
        /\ Done(p, "validate")
        /\ proc[p].data = JwtStr(h.jwt.accessToken)
        /\ proc[p].verifiedAt > h.jwt.accessToken.iat
        /\ proc[p].ret.kind = "payload"
        /\ proc[p].ret.sub = h.user

\* C12: both tokens of a returned pair are issued at one time t, the access
\* token to expire at t + 180 s and the refresh token at t + 604800 s; an
\* access token issued at t is accepted by validateJwt (the directory
\* replying that the subject exists) before t + 180 s and rejected as
\* expired after it; a refresh token issued at t is accepted by refresh
\* (signing succeeding) before t + 604800 s and rejected as expired after.
C12_Lifetimes ==
    \A p \in Procs :
        LET r == proc[p] IN
        /\ (r.pc = "done" /\ r.ret.kind = "jwt") =>
              /\ r.ret.accessToken.iat = r.ret.refreshToken.iat
              /\ r.ret.accessToken.exp = r.ret.accessToken.iat + 180
              /\ r.ret.refreshToken.exp = r.ret.refreshToken.iat + 604800
        /\ (/\ Done(p, "validate") /\ IsBareToken(r.data)
            /\ r.data.s[1].tok.secret = JWT_ACCESS_SECRET) =>
              LET tok == r.data.s[1].tok IN
              /\ (r.verifiedAt < tok.iat + 180 /\ r.isUserExist = "true")
                    => r.ret.kind = "payload"
              /\ r.verifiedAt > tok.iat + 180
                    => (r.ret = RUndefined /\ r.verified = "EXPIRED")
        /\ (/\ Done(p, "refresh") /\ IsBearerToken(r.data)
            /\ r.data.s[3].tok.secret = JWT_REFRESH_SECRET) =>
              LET tok == r.data.s[3].tok IN
              /\ (r.verifiedAt < tok.iat + 604800 /\ r.failed # "signing")
                    => r.ret.kind = "jwt"
              /\ r.verifiedAt > tok.iat + 604800
                    => (r.ret = RUndefined /\ r.verified = "EXPIRED")

\* a refresh given a refresh token one second before its expiry, long after
\* the access token of the same pair expired, has returned a pair
C12_Witness ==
    \E p \in Procs :
        /\ Done(p, "refresh")
        /\ IsBearerToken(proc[p].data)
        /\ proc[p].verifiedAt = proc[p].data.s[3].tok.iat + 604800 - 1
        /\ proc[p].ret.kind = "jwt"

\* the caller of request r has the pair that an earlier refresh returned
RefreshesHeld(r) == {h \in r.held : h.by = "refresh"}

\* C13: once refresh has succeeded with "Bearer T", every later refresh
\* given "Bearer T" before T's expiry (signing succeeding) succeeds too, and
\* returns a pair issued by that call: both tokens signed at the time of
\* the call, for T's subject, with the full lifetimes.
C13_RefreshTokenReusable ==
    \A p \in Procs : \A h \in RefreshesHeld(proc[p]) :
        LET r == proc[p] IN
        (/\ Done(p, "refresh")
         /\ r.data = h.data
         /\ r.verifiedAt < h.data.s[3].tok.exp
         /\ r.failed # "signing")
        => /\ r.ret.kind = "jwt"
           /\ r.ret.accessToken.iat >= r.verifiedAt
           /\ r.ret.refreshToken.iat >= r.verifiedAt
           /\ r.ret.accessToken.exp = r.ret.accessToken.iat + AccessTtl
           /\ r.ret.refreshToken.exp = r.ret.refreshToken.iat + RefreshTtl
           /\ r.ret.refreshToken.sub = h.data.s[3].tok.sub

\* a second refresh with the same token, after the first one returned a
\* newer pair, has returned a pair
C13_Witness ==
    \E p \in Procs : \E h \in RefreshesHeld(proc[p]) :
        /\ Done(p, "refresh")
        /\ proc[p].data = h.data
        /\ h.jwt.refreshToken.iat > h.data.s[3].tok.iat
        /\ proc[p].ret.kind = "jwt"

\* the handler of request r returned a business failure to the gateway
BusinessFailure(r) ==
    /\ r.pc = "done" /\ r.outcome = "returned"
    /\ \/ r.op = "register" /\ r.ret.kind = "error"
       \/ r.op \in {"login", "refresh"} /\ r.ret.kind # "jwt"

\* C14: the gateway answers every business failure of the auth service
\* with a 4xx status, isOk = false and the matching error code: the code of
\* register's ErrorData (2002 / 2003), 2004 for a login that returned no
\* pair, 2005 for a refresh that returned no pair.
C14_GatewayErrorMapping ==
    \A p \in Procs : BusinessFailure(proc[p]) =>
        LET r == proc[p] IN
        /\ r.http.status \in 400..499
        /\ r.http.body /\ r.http.isOk = FALSE
        /\ r.http.errorCode = CASE r.op = "register" -> r.ret.statusCode
                                 [] r.op = "login" -> 2004
                                 [] r.op = "refresh" -> 2005

\* C15: within one login the steps occur in the order lookup, password
\* verification, re-hash and 'update-password', token issuance: the
\* password is verified only against a record the lookup replied; the new
\* digest is computed and 'update-password' is sent only after the
\* verification succeeded; signing starts only after 'update-password'
\* replied true; each directory request is sent at most once.
C15_LoginOrder ==
    \A p \in Procs : proc[p].op = "login" =>
        LET r == proc[p] IN
        /\ r.finds <= 1 /\ r.updates <= 1
        /\ r.isPasswordMatched # "none" => (r.finds = 1 /\ r.user # NullUser)
        /\ r.newPassword # NoDigest => r.isPasswordMatched = "yes"
        /\ r.updates > 0 =>
              (r.isPasswordMatched = "yes" /\ r.newPassword # NoDigest)
        /\ r.updateReply # "none" => r.updates = 1
        /\ (r.pc = "sign" \/ r.failed = "signing" \/ r.ret.kind = "jwt")
              => r.updateReply = "true"

\* a login is about to sign its pair, the write-back having replied true
C15_Witness ==
    \E p \in Procs :
        /\ proc[p].op = "login"
        /\ proc[p].pc = "sign"
        /\ proc[p].updates = 1
        /\ users[proc[p].user.id].password = proc[p].newPassword

\* C16: two overlapping logins for one account, both with its password,
\* every directory call replying successfully (and signing succeeding),
\* both return a pair; the stored digest afterwards is the one written by
\* the 'update-password' that the directory applied last.
C16_ConcurrentLogins ==
    \A p, q \in Procs :
        LET rp == proc[p]
            rq == proc[q]
            ok(r) == /\ r.pc = "done" /\ r.op = "login"
                     /\ r.data.password = "p"
                     /\ r.failed = "none" /\ r.updateReply # "false"
        IN
        (p # q /\ ok(rp) /\ ok(rq)
            /\ rp.user.id # 0 /\ rp.user.id = rq.user.id)
        => /\ rp.ret.kind = "jwt" /\ rq.ret.kind = "jwt"
           /\ users[rp.user.id].password \in {rp.newPassword, rq.newPassword}
           /\ rp.replaced = rq.newPassword
                 => users[rp.user.id].password = rp.newPassword

\* two logins that both verified the digest stored before either wrote
\* have both returned a pair
C16_Witness ==
    \E p, q \in Procs :
        /\ p # q /\ Done(p, "login") /\ Done(q, "login")
        /\ proc[p].user = proc[q].user
        /\ proc[p].ret.kind = "jwt" /\ proc[q].ret.kind = "jwt"
        /\ proc[q].replaced = proc[p].newPassword

\* C17: every record is registered with plaintext "p"; whatever logins
\* have run, its stored digest verifies "p" and no other plaintext; a login
\* whose 'update-password' was applied replaced the stored digest by a
\* different digest of the plaintext it was given, which had verified; a
\* login with a wrong password sends no 'update-password'.
C17_RotationPreservesPassword ==
    /\ \A i \in 1..Len(users) : \A x \in Passwords :
          VerifyPassword(x, users[i].password) <=> x = "p"
    /\ \A p \in Procs : proc[p].op = "login" =>
          LET r == proc[p] IN
          /\ r.updateReply = "true" =>
                /\ r.newPassword # r.replaced
                /\ r.newPassword # r.user.password
                /\ VerifyPassword(r.data.password, r.newPassword)
                /\ VerifyPassword(r.data.password, r.replaced)
          /\ r.isPasswordMatched = "no" =>
                (r.updates = 0 /\ r.replaced = NoDigest)

\* a login with a wrong password and a login with the right one have both
\* run, and the directory stores the digest the second one wrote
C17_Witness ==
    \E p, q \in Procs :
        /\ Done(p, "login") /\ proc[p].isPasswordMatched = "no"
        /\ Done(q, "login") /\ proc[q].updateReply = "true"
        /\ proc[p].user.id = proc[q].user.id
        /\ users[proc[q].user.id].password = proc[q].newPassword
        /\ proc[q].newPassword # proc[p].user.password

\* what the requests in flight have sent to the directory, after a step
SendsWithinFrame ==
    \A p \in Procs :
        LET r == proc'[p] IN
        /\ r.op \in {"refresh", "validate", "hash-password"}
              => (r.creates = 0 /\ r.updates = 0)
        /\ r.op = "register" => r.updates = 0
        /\ r.op = "login" => r.creates = 0
        /\ (r.op = "login" /\ (r.user = NullUser \/ r.isPasswordMatched = "no"))
              => r.updates = 0

\* what a step of the auth service does to the credential records
StoreWithinFrame ==
    /\ Len(users') >= Len(users)
    /\ \A i \in 1..Len(users) :
          users'[i] = [users[i] EXCEPT !.password = users'[i].password]
    /\ users' # users =>
          \E p \in Procs :
              \/ /\ proc[p].pc = "register_create"
                 /\ Len(users') = Len(users) + 1
                 /\ SubSeq(users', 1, Len(users)) = users
              \/ /\ proc[p].pc = "login_update"
                 /\ proc[p].isPasswordMatched = "yes"
                 /\ users' = [users EXCEPT ![proc[p].user.id].password =
                                              proc[p].newPassword]

\* C18: every step of the auth service (every step but the directory's own
\* removal of an account) either leaves the records alone, or is register's
\* 'create-user' appending one record, or is the 'update-password' of a
\* login whose password verified, changing that record's digest only: no
\* id, username or email changes and no record goes away; refresh,
\* validateJwt and hashPassword send no 'create-user' and no
\* 'update-password', and neither does a login that found no record or
\* whose password did not match.
C18_StoreFrame ==
    [][SendsWithinFrame /\ (events' = events => StoreWithinFrame)]_vars

\* a register has created a record and a login has rotated a digest
C18_Witness ==
    /\ Len(users) = 2
    /\ users[1].password # UserA.password
    /\ \E p \in Procs : Done(p, "login") /\ proc[p].updateReply = "true"

\* C19: a request that ended in nack has changed no credential record: it
\* created none and replaced no stored digest; in particular a login whose
\* signing failed after its password verified left the digest as it was.
C19_NoPartialCompletion ==
    \A p \in Procs :
        (proc[p].pc = "done" /\ Nacked(proc[p])) =>
            /\ proc[p].userId = 0
            /\ proc[p].replaced = NoDigest
            /\ proc[p].updateReply # "true"

\* C20: every request received is eventually acked or nacked, once, and
\* its handler returns, every directory call and every sign / verify call
\* made for it settling (with a reply or with an error).
C20_Terminates ==
    \A p \in Procs :
        Busy(p) ~> (proc[p].pc = "done" /\ (Acked(proc[p]) \/ Nacked(proc[p])))

\* a login that went through every await (lookup, verification, write-back
\* and signing) has been acked
C20_Witness ==
    \E p \in Procs :
        /\ Done(p, "login")
        /\ proc[p].finds = 1 /\ proc[p].updates = 1
        /\ proc[p].ret.kind = "jwt"
        /\ Acked(proc[p])

\* C21: both tokens of a pair returned by refresh carry the subject of the
\* refresh token that was presented and verified; so a refresh given the
\* refresh token of a pair from a login for U, or of a pair from an earlier
\* refresh, returns tokens with the subject of that pair: along a chain
\* login(U), refresh, refresh, ... every token carries U's id.
C21_SubjectPreserved ==
    \A p \in Procs :
        LET r == proc[p] IN
        (Done(p, "refresh") /\ r.ret.kind = "jwt") =>
            /\ IsBearerToken(r.data)
            /\ r.ret.accessToken.sub = r.data.s[3].tok.sub
            /\ r.ret.refreshToken.sub = r.data.s[3].tok.sub
            /\ \A h \in r.held :
                  r.data = BearerStr(h.jwt.refreshToken) =>
                      /\ r.ret.accessToken.sub = h.jwt.accessToken.sub
                      /\ r.ret.refreshToken.sub = h.jwt.refreshToken.sub
                      /\ h.by = "login" => r.ret.accessToken.sub = h.user

\* a refresh given the refresh token that an earlier refresh returned, at a
\* later time, has returned a pair for the same subject
C21_Witness ==
    \E p \in Procs : \E h \in RefreshesHeld(proc[p]) :
        /\ Done(p, "refresh")
        /\ proc[p].data = BearerStr(h.jwt.refreshToken)
        /\ h.jwt.refreshToken # h.data.s[3].tok
        /\ proc[p].ret.kind = "jwt"
        /\ proc[p].ret.refreshToken.sub = h.data.s[3].tok.sub

\* C22: the gateway answers a register request with 201 only when the auth
\* service returned true, that is when 'create-user' replied the id of a
\* new record; when the handler failed unexpectedly and returned false the
\* answer is not 201.
C22_CreatedOnly201 ==
    \A p \in Procs : Done(p, "register") =>
        LET r == proc[p] IN
        /\ r.http.status = 201 => (r.ret = RTrue /\ r.userId # 0)
        /\ (Nacked(r) /\ r.ret = RFalse) => r.http.status # 201

\* C23: whatever the auth service returned to a login or a refresh (a
\* pair, null or undefined), the gateway's answer is consistent: its status
\* is 200 exactly when isOk is true, exactly when data is a pair; an answer
\* with another status has isOk = false and errorCode 2004 (login) or 2005
\* (refresh).
C23_ConsistentResponse ==
    \A p \in Procs :
        (proc[p].pc = "done" /\ proc[p].op \in {"login", "refresh"}) =>
            LET r == proc[p] IN
            /\ r.http.body
            /\ (r.http.status = 200) <=> r.http.isOk
            /\ r.http.isOk <=> (r.http.data.kind = "jwt")
            /\ r.http.data.kind = "jwt" => r.http.data = r.ret
            /\ r.http.status # 200 =>
                  /\ ~r.http.isOk
                  /\ r.http.errorCode = IF r.op = "login" THEN 2004 ELSE 2005

\* a refresh sends nothing to the directory
RefreshSendsNothing ==
    \A p \in Procs : proc'[p].op = "refresh" =>
        /\ proc'[p].finds = 0 /\ proc'[p].creates = 0
        /\ proc'[p].updates = 0 /\ proc'[p].exists = 0

\* the refresh of worker p returns in this step, having been given "Bearer "
\* + a refresh token that verified, whose subject the directory may or may
\* not store
RefreshReturns(p) ==
    /\ proc[p].op = "refresh" /\ proc[p].pc # "done" /\ proc'[p].pc = "done"
    /\ IsBearerToken(proc[p].data)
    /\ GoodAt(proc[p].data.s[3].tok, JWT_REFRESH_SECRET, proc'[p].verifiedAt)
    /\ proc'[p].failed # "signing"

\* the validate of worker p returns in this step, having been given the
\* access token of a pair that a refresh returned, while the directory does
\* not store the subject
ValidateReturnsSubjectGone(p) ==
    /\ proc[p].op = "validate" /\ proc[p].pc # "done" /\ proc'[p].pc = "done"
    /\ \E h \in RefreshesHeld(proc[p]) :
          /\ proc[p].data = JwtStr(h.jwt.accessToken)
          /\ ~IsUserIdExist(h.jwt.accessToken.sub)

\* C24: refresh sends no directory request, and given "Bearer " + a valid,
\* unexpired refresh token it returns a new pair for the token's subject
\* (signing succeeding) whether or not the directory still stores that
\* subject; validateJwt given the access token of a pair that a refresh
\* returned returns undefined whenever the directory does not store the
\* subject.
C24_RefreshIgnoresDirectory ==
    [][/\ RefreshSendsNothing
       /\ \A p \in Procs :
            /\ RefreshReturns(p) =>
                  /\ proc'[p].ret.kind = "jwt"
                  /\ proc'[p].ret.accessToken.sub = proc[p].data.s[3].tok.sub
            /\ ValidateReturnsSubjectGone(p) => proc'[p].ret = RUndefined]_vars

\* a refresh, received after the directory had removed the subject of its
\* token (no other request ran beside it), has returned a pair
C24_Witness ==
    \E p \in Procs :
        /\ Done(p, "refresh")
        /\ \A q \in Procs \ {p} : proc[q].pc = "idle"
        /\ proc[p].ret.kind = "jwt"
        /\ ~IsUserIdExist(proc[p].ret.accessToken.sub)

\* the refresh of worker p signs and returns its pair in this step
RefreshIssues(p) ==
    /\ proc[p].op = "refresh" /\ proc[p].pc = "sign"
    /\ proc'[p].ret.kind = "jwt"

\* C25: the tokens that a refresh signs at time t expire at t + 180 s
\* (access) and t + 604800 s (refresh), whatever the issue time and the
\* remaining lifetime of the refresh token presented; presented later than
\* it was issued, a refresh token is answered by one that expires later
\* than itself, so each refresh made within 7 days of the previous one
\* moves the end of the session forward.
C25_SlidingExpiry ==
    [][\A p \in Procs : RefreshIssues(p) =>
          LET old == proc[p].data.s[3].tok
              new == proc'[p].ret
          IN /\ new.accessToken.iat = now /\ new.refreshToken.iat = now
             /\ new.accessToken.exp = now + 180
             /\ new.refreshToken.exp = now + 604800
             /\ now > old.iat => new.refreshToken.exp > old.exp]_vars

\* a refresh given a refresh token one second before its expiry has
\* returned a refresh token that lasts a full 7 days more
C25_Witness ==
    \E p \in Procs :
        /\ Done(p, "refresh")
        /\ proc[p].ret.kind = "jwt"
        /\ proc[p].ret.refreshToken.iat = proc[p].data.s[3].tok.exp - 1
        /\ proc[p].ret.refreshToken.exp = proc[p].data.s[3].tok.exp - 1 + RefreshTtl

====
